---------------------------- MODULE Spec2Model ----------------------------
(***************************************************************************)
(* Model of GMC.py: Location, the calculation methods, the astronomical    *)
(* engine AstronomischeBerekeningen, OpenWeatherMapProvider and            *)
(* GebedsTijdenCalculator.                                                 *)
(*                                                                         *)
(* Python floats are modelled in fixed point.  A real number x is the      *)
(* integer x * Scale (Scale = 10^6): angles are micro-degrees, sines and   *)
(* cosines are millionths, times of day are micro-hours.  Every product    *)
(* and quotient is split so that no intermediate leaves 32 bits.  The      *)
(* trigonometric functions are computed (Taylor series, bisection), so the *)
(* model's numbers follow the program's to about 1e-5; float('nan') is the *)
(* value NaN, which no computation produces.                               *)
(***************************************************************************)
EXTENDS Integers, Sequences, FiniteSets, TLC

VARIABLES
    location,   \* the Location instance, or None when construction failed / not yet done
    locArgs,    \* the arguments of the last Location(...) call
    fout,       \* exception raised by the last operation, "none" when it returned
    datum,      \* the instant: [jaar, maand, dag, uur]
    tijden,     \* per method: the dict returned by calculate_prayer_times, or None
    cosinus,    \* per method: the hour-angle cosines calculate_prayer_times computed
    tijd,       \* argument of _formatteer_tijd
    formaat,    \* '24u' or '12u'
    tekst,      \* string returned by _formatteer_tijd (sequence of characters)
    cache,      \* lru_cache of haal_weer_data: sequence of entries, most recent last
    verzoeken,  \* number of HTTP requests issued so far
    weer,       \* value returned by the last haal_weer_data call, or None
    calculator, \* the GebedsTijdenCalculator instance, or None
    resultaat   \* value returned by bereken_gebedstijden, or None

vars == <<location, locArgs, fout, datum, tijden, cosinus, tijd, formaat, tekst,
          cache, verzoeken, weer, calculator, resultaat>>

\* Python's None, as a value comparable with the records the variables hold
None == [None |-> TRUE]

\* no string yet (no call returned)
GeenTekst == <<>>

(***************************************************************************)
(* Fixed-point arithmetic                                                  *)
(***************************************************************************)
Scale == 1000 * 1000

\* float('nan'): outside every range a computed value can take
NaN == -2000000000

IsNaN(x) == x = NaN

Abs(x) == IF x < 0 THEN -x ELSE x

Sgn(x) == IF x < 0 THEN -1 ELSE 1

\* a * b on reals: (a * b) / Scale, truncated toward zero, in four partial products
MulS(a, b) ==
    LET x == Abs(a)
        y == Abs(b)
        xh == x \div 1000
        xl == x % 1000
        yh == y \div 1000
        yl == y % 1000
        mid == xh * yl + xl * yh
    IN  Sgn(a) * Sgn(b) *
        (xh * yh + mid \div 1000 + ((mid % 1000) * 1000 + xl * yl) \div Scale)

\* the largest magnitude a quotient is given: the float quotient is larger still
Huge == 200 * Scale

RECURSIVE DivFrac(_, _, _)
\* k decimal digits of r / y, for 0 <= r < y
DivFrac(r, y, k) ==
    IF k = 0 THEN 0
    ELSE LET p == IF k = 1 THEN 1 ELSE IF k = 2 THEN 10 ELSE IF k = 3 THEN 100
                  ELSE IF k = 4 THEN 1000 ELSE IF k = 5 THEN 10000 ELSE 100000
         IN  ((10 * r) \div y) * p + DivFrac((10 * r) % y, y, k - 1)

\* a / b on reals, b # 0.  Quotients beyond Huge are cut to Huge (they only ever
\* feed a range test or an arctangent, which no longer distinguish them).
DivS(a, b) ==
    LET x == Abs(a)
        y == Abs(b)
        q == x \div y
    IN  IF q >= 200 THEN Sgn(a) * Sgn(b) * Huge
        ELSE Sgn(a) * Sgn(b) * (q * Scale + DivFrac(x % y, y, 6))

D90 == 90 * Scale
D180 == 180 * Scale
D360 == 360 * Scale

\* math.radians for 0 <= r <= 90 degrees: r * pi / 180 (pi/180 = 0.017453293)
Radians(r) == MulS(r, 17453) + ((r \div 1000) * 293) \div Scale

\* the sine series x - x^3/3! + x^5/5! - ... - x^15/15! in Horner form, x2 = x * x,
\* for 0 <= x <= pi/2
SinSeries(x, x2) ==
    MulS(x, Scale - MulS(x2, Scale - MulS(x2, Scale - MulS(x2, Scale - MulS(x2,
         Scale - MulS(x2, Scale - MulS(x2, Scale - x2 \div 210) \div 156) \div 110)
         \div 72) \div 42) \div 20) \div 6)

\* sine of r micro-degrees, 0 <= r <= 90 degrees
SinQuadrant(r) == SinSeries(Radians(r), MulS(Radians(r), Radians(r)))

\* math.sin(math.radians(a)) for a in micro-degrees: sin(a) = -sin(a - 180) and
\* sin(a) = sin(180 - a) bring a into 0..90
Sin(a) ==
    (IF a % D360 < D180 THEN 1 ELSE -1)
    * SinQuadrant(IF a % D180 <= D90 THEN a % D180 ELSE D180 - (a % D180))

\* math.cos(math.radians(a))
Cos(a) == Sin(a + D90)

\* s / c for a sine s and a cosine c.  cos(radians(90.0)) is 6.1e-17 in IEEE doubles,
\* not 0, so the float quotient exists and is huge: here Huge with the sine's sign.
Quotient(s, c) == IF c = 0 THEN Sgn(s) * Huge ELSE DivS(s, c)

\* math.tan(math.radians(a))
Tan(a) == Quotient(Sin(a), Cos(a))

RECURSIVE AcosSearch(_, _, _)
\* the least angle a in lo+1..hi with Cos(a) <= c, by bisection: Cos falls on 0..90
\* and Cos(hi) <= c
AcosSearch(c, lo, hi) ==
    IF hi - lo <= 1 THEN hi
    ELSE IF Cos((lo + hi) \div 2) <= c
         THEN AcosSearch(c, lo, (lo + hi) \div 2)
         ELSE AcosSearch(c, (lo + hi) \div 2, hi)

\* math.degrees(math.acos(c)) for -1 <= c <= 1, in micro-degrees 0..180:
\* acos(-c) = 180 - acos(c)
Acos(c) ==
    (IF c < 0 THEN D180 ELSE 0) + (IF c < 0 THEN -1 ELSE 1) * AcosSearch(Abs(c), 0, D90)

\* math.degrees(math.asin(s))
Asin(s) == D90 - Acos(s)

RECURSIVE AtanSearch(_, _, _)
\* the greatest angle a in lo..hi-1 with tan(a) <= v, i.e. sin(a) <= v * cos(a)
AtanSearch(v, lo, hi) ==
    IF hi - lo <= 1 THEN lo
    ELSE IF Sin((lo + hi) \div 2) <= MulS(v, Cos((lo + hi) \div 2))
         THEN AtanSearch(v, (lo + hi) \div 2, hi)
         ELSE AtanSearch(v, lo, (lo + hi) \div 2)

\* math.degrees(math.atan(v)), in micro-degrees between -90 and 90
Atan(v) == AtanSearch(v, 1 - D90, D90 - 1)

RECURSIVE MulMod(_, _, _)
\* (a * n) % m for 0 <= a < m, n >= 0, by doubling
MulMod(a, n, m) ==
    IF n = 0 THEN 0
    ELSE LET dbl == (2 * MulMod(a, n \div 2, m)) % m
         IN  IF n % 2 = 1 THEN (dbl + a) % m ELSE dbl


(***************************************************************************)
(* Location (frozen dataclass) and its validation                          *)
(***************************************************************************)
\* a < b on floats: FALSE when either side is NaN
Less(a, b) == ~IsNaN(a) /\ ~IsNaN(b) /\ a < b

\* a <= b on floats: FALSE when either side is NaN
LessEq(a, b) == ~IsNaN(a) /\ ~IsNaN(b) /\ a <= b

\* _validate_latitude: the ValueError is raised when -90 <= latitude <= 90 is FALSE
LatitudeOk(lat) == LessEq(-D90, lat) /\ LessEq(lat, D90)

\* _validate_longitude: raises when -180 <= longitude <= 180 is FALSE
LongitudeOk(lon) == LessEq(-D180, lon) /\ LessEq(lon, D180)

\* _validate_elevation: raises when elevation < 0 is TRUE
ElevationOk(elev) == ~Less(elev, 0)

\* __post_init__: the three validations in order; the first that fails raises
post_init(lat, lon, elev) ==
    IF ~LatitudeOk(lat) THEN "ValueError"
    ELSE IF ~LongitudeOk(lon) THEN "ValueError"
    ELSE IF ~ElevationOk(elev) THEN "ValueError"
    ELSE "none"

\* frozen=True: __setattr__ raises FrozenInstanceError and the instance keeps its value
FrozenSetattr(loc, veld, waarde) == loc

\* Location(latitude, longitude, "UTC", elevation): the instance __init__ builds
NewLocation(lat, lon, elev) ==
    [latitude |-> lat, longitude |-> lon, timezone_str |-> "UTC", elevation |-> elev]

(***************************************************************************)
(* Calculation methods                                                     *)
(***************************************************************************)
StandaardMethode ==
    [naam |-> "Standaard (Shafi'i, Maliki, Hanbali)",
     asr_factor |-> 1 * Scale, fajr_hoek |-> 18 * Scale, isha_hoek |-> 17 * Scale]

HanafiMethode ==
    [naam |-> "Hanafi",
     asr_factor |-> 2 * Scale, fajr_hoek |-> 18 * Scale, isha_hoek |-> 18 * Scale]

\* GebedsTijdenCalculator.METHODEN
METHODEN == [standaard |-> StandaardMethode, hanafi |-> HanafiMethode]

MethodeNamen == DOMAIN METHODEN

(***************************************************************************)
(* AstronomischeBerekeningen                                               *)
(***************************************************************************)
EARTH_RADIUS == 6371000

\* days of a month of the proleptic Gregorian calendar (datetime's own validation)
DagenInMaand(jaar, maand) ==
    IF maand \in {4, 6, 9, 11} THEN 30
    ELSE IF maand = 2
         THEN (IF jaar % 4 = 0 /\ (jaar % 100 # 0 \/ jaar % 400 = 0) THEN 29 ELSE 28)
         ELSE 31

\* _bereken_julian_dag, in hours (24 * jd); the instants have minute = second = 0.
\* floor(365.25 * j) = (1461 * j) div 4 and floor(30.6001 * m) = (306001 * m) div 10000.
bereken_julian_dag(dat) ==
    LET jaar == IF dat.maand <= 2 THEN dat.jaar - 1 ELSE dat.jaar
        maand == IF dat.maand <= 2 THEN dat.maand + 12 ELSE dat.maand
        a == jaar \div 100
        b == 2 - a + a \div 4
        n == (1461 * (jaar + 4716)) \div 4 + (306001 * (maand + 1)) \div 10000
             + dat.dag + b
    IN  (n - 1524) * 24 - 12 + dat.uur

\* julian_dag - 2451545.0, in hours
DagenSinds2000(julian_dag) == julian_dag - 2451545 * 24

\* eccentriciteit: 0.016708634 - 0.000042037 T - 0.0000001267 T^2, T = d / 36525
\* (T in millionths is dUren * 10^6 / 876600; the T^2 term is below 10^-6)
eccentriciteit(julian_dag) ==
    LET T == (DagenSinds2000(julian_dag) * 5000) \div 4383
    IN  16709 - MulS(42, T)

\* mean anomaly g = 357.529 + 0.98560028 d, reduced modulo 360 degrees as it is
\* built (which changes no sine); dagen and uren are the days and hours of d
MeanAnomaly(dagen, uren) ==
    (357529000 + MulMod(985600, dagen, D360) + (28 * dagen) \div 100
     + (985600 * uren) \div 24) % D360

\* mean longitude q = 280.459 + 0.98564736 d, modulo 360 degrees
MeanLongitude(dagen, uren) ==
    (280459000 + MulMod(985647, dagen, D360) + (36 * dagen) \div 100
     + (985647 * uren) \div 24) % D360

\* obliquity e = 23.439 - 0.00000036 d
Obliquity(dagen) == 23439000 - (36 * dagen) \div 100

\* omega = 125.04 - 1934.136 d, modulo 360 degrees
Omega(dagen, uren) ==
    (125040000 - MulMod(134136000, dagen, D360) - ((80589000 * uren) % D360)) % D360

\* lambda_sun = q + 1.915 sin g + 0.020 sin 2g - 0.00569 - 0.00478 sin omega
LambdaSun(g, q, omega) ==
    q + MulS(1915000, Sin(g)) + MulS(20000, Sin(2 * g)) - 5690 - MulS(4780, Sin(omega))

\* declinatie = degrees(asin(sin(e) sin(lambda_sun)))
Declinatie(e, lambda_sun) == Asin(MulS(Sin(e), Sin(lambda_sun)))

\* y = tan(e / 2) ** 2
TanKwadraat(th) == MulS(th, th)

\* eot in radians: y sin 2q - 2 ecc sin g + 4 ecc y sin g cos 2q - 0.5 y^2 sin 4q
\* - 1.25 ecc^2 sin 2g
EotRadians(y, ecc, g, q) ==
    MulS(y, Sin(2 * q)) - 2 * MulS(ecc, Sin(g))
    + 4 * MulS(MulS(ecc, y), MulS(Sin(g), Cos(2 * q)))
    - MulS(MulS(y, y), Sin(4 * q)) \div 2
    - (5 * MulS(MulS(ecc, ecc), Sin(2 * g))) \div 4

\* the dict built from g, q, e and omega; eot = degrees(eot) * 4 minutes, and
\* degrees(1) * 4 = 229.183118.  RA is computed by the program and never read: it is
\* left out.
ZonPositie(g, q, e, omega, ecc) ==
    [declinatie |-> Declinatie(e, LambdaSun(g, q, omega)),
     eot |-> MulS(EotRadians(TanKwadraat(Tan(e \div 2)), ecc, g, q), 229183118)]

\* _calculate_sun_position: declinatie (micro-degrees) and eot (micro-minutes)
SunPositionAt(dagen, uren, ecc) ==
    ZonPositie(MeanAnomaly(dagen, uren), MeanLongitude(dagen, uren), Obliquity(dagen),
               Omega(dagen, uren), ecc)

calculate_sun_position(julian_dag) ==
    SunPositionAt(DagenSinds2000(julian_dag) \div 24, DagenSinds2000(julian_dag) % 24,
                  eccentriciteit(julian_dag))

\* _get_zon_correctie: refraction 0.0347 degrees plus the dip of the horizon
get_zon_correctie(elevation) ==
    34700 + (IF elevation > 0
             THEN Acos(DivS(EARTH_RADIUS, EARTH_RADIUS + elevation))
             ELSE 0)

\* the hour-angle cosine for a target altitude:
\* (sin(target) - sin(lat) sin(decl)) / (cos(lat) cos(decl)).
\* At latitude +-90.0 the float divisor is about 6e-17, never 0.0; the model's
\* divisor is then 0 and the quotient is Huge with the numerator's sign.
HoekCosinus(target, latitude, declinatie) ==
    Quotient(Sin(target) - MulS(Sin(latitude), Sin(declinatie)),
             MulS(Cos(latitude), Cos(declinatie)))

\* the guard with its lower bound forgotten
InBereik_Mut(c) == c <= Scale

\* the test "-1 <= cos_omega <= 1" that guards every math.acos
InBereik(c) == -Scale <= c /\ c <= Scale

\* math.acos raises ValueError (math domain error) outside [-1, 1]
AcosDomeinFout(c) == c < -Scale \/ c > Scale

\* the morning side computed with the evening's sign
Ochtend_Mut(zonnoon, omega) == zonnoon + omega \div 15

\* zonnoon - omega / 15 (sunrise, fajr)
Ochtend(zonnoon, omega) == zonnoon - omega \div 15

\* zonnoon + omega / 15 (sunset, asr, isha)
Avond(zonnoon, omega) == zonnoon + omega \div 15

\* maghrib set three minutes after sunset
Maghrib_Mut(sunset) == sunset + 50000

\* tijden['maghrib'] = tijden['sunset']
Maghrib(sunset) == sunset

\* one time of the dict: the acos branch or float('nan')
GebedsTijd(c, zonnoon, ochtend) ==
    IF InBereik(c)
    THEN (IF ochtend THEN Ochtend(zonnoon, Acos(c)) ELSE Avond(zonnoon, Acos(c)))
    ELSE NaN

\* the dict's keys, in the order the program sets them
Sleutels == {"dhuhr", "sunrise", "sunset", "maghrib", "asr", "fajr", "isha"}

\* the dict calculate_prayer_times builds from zonnoon and the four cosines
TijdenDict(zonnoon, cosines, sunset) ==
    [dhuhr |-> zonnoon,
     sunrise |-> GebedsTijd(cosines.sunrise, zonnoon, TRUE),
     sunset |-> sunset,
     maghrib |-> IF InBereik(cosines.sunrise) THEN Maghrib(sunset) ELSE NaN,
     asr |-> GebedsTijd(cosines.asr, zonnoon, FALSE),
     fajr |-> GebedsTijd(cosines.fajr, zonnoon, TRUE),
     isha |-> GebedsTijd(cosines.isha, zonnoon, FALSE)]

\* the exception the body raises, "none" when it returns: 1 / t with t = 0.0, or
\* math.acos outside its domain
Uitzondering(t, cosines) ==
    IF t = 0 THEN "ZeroDivisionError"
    ELSE IF \E k \in DOMAIN cosines : InBereik(cosines[k]) /\ AcosDomeinFout(cosines[k])
         THEN "ValueError"
         ELSE "none"

\* what the call leaves: the exception, the dict (None when it raised) and the cosines
Uitkomst(zonnoon, t, cosines) ==
    IF Uitzondering(t, cosines) # "none"
    THEN [fout |-> Uitzondering(t, cosines), tijden |-> None, cosinus |-> cosines]
    ELSE [fout |-> "none",
          tijden |-> TijdenDict(zonnoon, cosines,
                                GebedsTijd(cosines.sunrise, zonnoon, FALSE)),
          cosinus |-> cosines]

\* asr_hoek = degrees(atan(1 / t))
AsrHoek(t) == IF t = 0 THEN 0 ELSE Atan(DivS(Scale, t))

\* t = asr_factor + tan(radians(abs(latitude - declinatie)))
AsrT(asr_factor, latitude, declinatie) == asr_factor + Tan(Abs(latitude - declinatie))

\* the four hour-angle cosines: sunrise/sunset, asr, fajr, isha
Cosinussen(loc, methode, declinatie, alpha, t) ==
    [sunrise |-> HoekCosinus(-833300 - alpha, loc.latitude, declinatie),
     asr |-> HoekCosinus(D90 - AsrHoek(t), loc.latitude, declinatie),
     fajr |-> HoekCosinus(-methode.fajr_hoek, loc.latitude, declinatie),
     isha |-> HoekCosinus(-methode.isha_hoek, loc.latitude, declinatie)]

\* the body of calculate_prayer_times once zon_pos is known: zonnoon = 12 - eot / 60
PrayerTimesAt(loc, methode, zon_pos) ==
    LET t == AsrT(methode.asr_factor, loc.latitude, zon_pos.declinatie)
    IN  Uitkomst(12 * Scale - zon_pos.eot \div 60, t,
                 Cosinussen(loc, methode, zon_pos.declinatie,
                            get_zon_correctie(loc.elevation), t))

\* calculate_prayer_times: the dict it returns (tijden), the cosines it computed,
\* and the exception it raised ("none" when it returned).  Each intermediate value is
\* drawn from a singleton set, so that it is computed once.
calculate_prayer_times(loc, dat, methode) ==
    CHOOSE r \in {PrayerTimesAt(loc, methode, zon_pos) :
                    zon_pos \in {calculate_sun_position(bereken_julian_dag(dat))}} : TRUE

(***************************************************************************)
(* Inputs of the engine                                                    *)
(***************************************************************************)
MaxLatK == 10
MaxElevK == 1
MaxMaandK == 2
MaxDagK == 1
Jaar == 2024

\* latitudes every 9 degrees, from -90 to 90 (the poles included)
LatStap == 9 * Scale

\* elevation 0 and that of test_locaties' Johannesburg
ElevStap == 1753

Latitudes == {k * LatStap : k \in -MaxLatK..MaxLatK}

Elevations == {k * ElevStap : k \in 0..MaxElevK}

\* datetime(jaar, maand, dag, uur) raises unless the date exists
DatumOk(dat) ==
    /\ dat.maand \in 1..12
    /\ dat.dag \in 1..DagenInMaand(dat.jaar, dat.maand)
    /\ dat.uur \in 0..23

\* the 16th and 26th of February, June and October, at 00:00 UTC
Datums ==
    {dat \in [jaar : {Jaar}, maand : {2 + 4 * k : k \in 0..MaxMaandK},
              dag : {16 + 10 * k : k \in 0..MaxDagK}, uur : {0}] : DatumOk(dat)}

\* the Locations that exist: those whose construction raised nothing
GeldigeLocaties ==
    {NewLocation(lat, 0, elev) : lat \in {l \in Latitudes : post_init(l, 0, 0) = "none"},
                                 elev \in Elevations}

NoDatum == [jaar |-> 0, maand |-> 0, dag |-> 0, uur |-> 0]

NietBerekend == [m \in MethodeNamen |-> None]

(***************************************************************************)
(* SpecEngine: AstronomischeBerekeningen(location, datum) is constructed   *)
(* and calculate_prayer_times is called with each method.                  *)
(***************************************************************************)
InitEngine ==
    /\ location \in GeldigeLocaties
    /\ locArgs = None
    /\ fout = "none"
    /\ datum \in Datums
    /\ tijden = NietBerekend
    /\ cosinus = NietBerekend
    /\ tijd = NaN
    /\ formaat = "24u"
    /\ tekst = GeenTekst
    /\ cache = <<>>
    /\ verzoeken = 0
    /\ weer = None
    /\ calculator = None
    /\ resultaat = None

CalculatePrayerTimes(m) ==
    /\ tijden[m] = None
    /\ fout = "none"
    /\ \E r \in {calculate_prayer_times(location, datum, METHODEN[m])} :
           /\ tijden' = [tijden EXCEPT ![m] = r.tijden]
           /\ cosinus' = [cosinus EXCEPT ![m] = r.cosinus]
           /\ fout' = r.fout
    /\ UNCHANGED <<location, locArgs, datum, tijd, formaat, tekst, cache, verzoeken,
                   weer, calculator, resultaat>>

NextEngine == \E m \in MethodeNamen : CalculatePrayerTimes(m)

SpecEngine == InitEngine /\ [][NextEngine]_vars

\* a call of calculate_prayer_times with method m has been made
Aangeroepen(m) == cosinus[m] # None

\* the call with method m returned a dict
Berekend(m) == tijden[m] # None

\* a finite time of day, 0 <= h < 24
InEtmaal(h) == 0 <= h /\ h < 24 * Scale

\* the six prayer times the specification names
ZesSleutels == {"fajr", "sunrise", "dhuhr", "asr", "maghrib", "isha"}

\* C1: for the same Location and instant, whenever both methods give a finite asr,
\* the Hanafi asr (factor 2.0) is greater than or equal to the Standaard asr
\* (factor 1.0).
C1_HanafiAsrNotEarlier ==
    (/\ Berekend("standaard") /\ Berekend("hanafi")
     /\ ~IsNaN(tijden["standaard"].asr) /\ ~IsNaN(tijden["hanafi"].asr))
    => tijden["hanafi"].asr >= tijden["standaard"].asr

\* C2: each of the six values returned is NaN or a finite h with 0 <= h < 24, and
\* dhuhr is always finite and in [0, 24).
C2_TimesWithinDay ==
    \A m \in MethodeNamen :
        Berekend(m) =>
            /\ \A k \in ZesSleutels : IsNaN(tijden[m][k]) \/ InEtmaal(tijden[m][k])
            /\ InEtmaal(tijden[m].dhuhr)

\* a field of the dict is NaN exactly when its cosine lies outside [-1, 1]
NaNAlsBuitenBereik(m) ==
    /\ IsNaN(tijden[m].sunrise) <=> ~(-Scale <= cosinus[m].sunrise /\ cosinus[m].sunrise <= Scale)
    /\ IsNaN(tijden[m].sunset) <=> ~(-Scale <= cosinus[m].sunrise /\ cosinus[m].sunrise <= Scale)
    /\ IsNaN(tijden[m].maghrib) <=> ~(-Scale <= cosinus[m].sunrise /\ cosinus[m].sunrise <= Scale)
    /\ IsNaN(tijden[m].asr) <=> ~(-Scale <= cosinus[m].asr /\ cosinus[m].asr <= Scale)
    /\ IsNaN(tijden[m].fajr) <=> ~(-Scale <= cosinus[m].fajr /\ cosinus[m].fajr <= Scale)
    /\ IsNaN(tijden[m].isha) <=> ~(-Scale <= cosinus[m].isha /\ cosinus[m].isha <= Scale)
    /\ ~IsNaN(tijden[m].dhuhr)

\* C4 as stated: calculate_prayer_times never raises, returns a dict with exactly the
\* six keys fajr, sunrise, dhuhr, asr, maghrib, isha, and a field is NaN exactly when
\* its hour-angle cosine lies outside [-1, 1].
C4_ExactlySixKeys ==
    \A m \in MethodeNamen :
        Aangeroepen(m) =>
            /\ fout = "none"
            /\ Berekend(m)
            /\ DOMAIN tijden[m] = ZesSleutels
            /\ NaNAlsBuitenBereik(m)

\* C4 amended: calculate_prayer_times never raises, returns a dict with exactly the
\* seven keys dhuhr, sunrise, sunset, maghrib, asr, fajr, isha, and a field is NaN
\* exactly when its hour-angle cosine lies outside [-1, 1] (dhuhr never is).
C4_NeverRaisesSevenKeys ==
    \A m \in MethodeNamen :
        Aangeroepen(m) =>
            /\ fout = "none"
            /\ Berekend(m)
            /\ DOMAIN tijden[m] = ZesSleutels \cup {"sunset"}
            /\ NaNAlsBuitenBereik(m)

\* C4 witness: a call returned with asr invalid (its cosine below -1 or above 1) while
\* sunrise, fajr and isha were computed
C4_Witness ==
    \E m \in MethodeNamen :
        /\ Berekend(m)
        /\ IsNaN(tijden[m].asr) /\ ~InBereik(cosinus[m].asr)
        /\ ~IsNaN(tijden[m].sunrise) /\ ~IsNaN(tijden[m].fajr) /\ ~IsNaN(tijden[m].isha)

\* C5: whenever sunrise and sunset are both finite, sunrise <= dhuhr <= sunset, the
\* two lying at the same distance from dhuhr.
C5_SunriseDhuhrSunset ==
    \A m \in MethodeNamen :
        (Berekend(m) /\ ~IsNaN(tijden[m].sunrise) /\ ~IsNaN(tijden[m].sunset)) =>
            /\ tijden[m].sunrise <= tijden[m].dhuhr
            /\ tijden[m].dhuhr <= tijden[m].sunset
            /\ tijden[m].dhuhr - tijden[m].sunrise = tijden[m].sunset - tijden[m].dhuhr

\* C5 witness: a call returned a finite sunrise before dhuhr and a finite sunset after
C5_Witness ==
    \E m \in MethodeNamen :
        /\ Berekend(m)
        /\ ~IsNaN(tijden[m].sunrise) /\ ~IsNaN(tijden[m].sunset)
        /\ tijden[m].sunrise < tijden[m].dhuhr /\ tijden[m].dhuhr < tijden[m].sunset

\* C6: maghrib equals sunset for all inputs; when sunset is unreachable both are NaN.
C6_MaghribIsSunset ==
    \A m \in MethodeNamen :
        Berekend(m) =>
            /\ tijden[m].maghrib = tijden[m].sunset
            /\ IsNaN(tijden[m].maghrib) <=> IsNaN(tijden[m].sunset)

\* C6 witness: a call returned a finite sunset, and maghrib with it
C6_Witness ==
    \E m \in MethodeNamen :
        /\ Berekend(m)
        /\ ~IsNaN(tijden[m].sunset)
        /\ InBereik(cosinus[m].sunrise)
        /\ tijden[m].maghrib = tijden[m].sunset

(***************************************************************************)
(* SpecLocation: Location(...) is called with arguments in and out of      *)
(* range, and attributes of an existing instance are assigned to.          *)
(***************************************************************************)
MaxLocK == 3

\* latitudes every 45 degrees, from -135 to 135, and NaN
LocLatitudes == {k * 45 * Scale : k \in -MaxLocK..MaxLocK} \cup {NaN}

\* longitudes every 90 degrees, from -270 to 270, and NaN
LocLongitudes == {k * 90 * Scale : k \in -MaxLocK..MaxLocK} \cup {NaN}

\* elevations from one step below sea level upward, and NaN
LocElevations == {k * ElevStap : k \in -1..MaxElevK} \cup {NaN}

InitLocation ==
    /\ location = None
    /\ locArgs = None
    /\ fout = "none"
    /\ datum = NoDatum
    /\ tijden = NietBerekend
    /\ cosinus = NietBerekend
    /\ tijd = NaN
    /\ formaat = "24u"
    /\ tekst = GeenTekst
    /\ cache = <<>>
    /\ verzoeken = 0
    /\ weer = None
    /\ calculator = None
    /\ resultaat = None

\* loc = Location(lat, lon, "UTC", elev): __post_init__ raises, or the instance exists
ConstructLocation(lat, lon, elev) ==
    /\ locArgs' = [latitude |-> lat, longitude |-> lon, elevation |-> elev]
    /\ fout' = post_init(lat, lon, elev)
    /\ location' = IF post_init(lat, lon, elev) = "none"
                   THEN NewLocation(lat, lon, elev)
                   ELSE None
    /\ UNCHANGED <<datum, tijden, cosinus, tijd, formaat, tekst, cache, verzoeken,
                   weer, calculator, resultaat>>

\* loc.<veld> = waarde on an existing instance
SetAttribute(veld, waarde) ==
    /\ location # None
    /\ fout' = "FrozenInstanceError"
    /\ location' = FrozenSetattr(location, veld, waarde)
    /\ UNCHANGED <<locArgs, datum, tijden, cosinus, tijd, formaat, tekst, cache,
                   verzoeken, weer, calculator, resultaat>>

NextLocation ==
    \/ \E lat \in LocLatitudes, lon \in LocLongitudes, elev \in LocElevations :
           ConstructLocation(lat, lon, elev)
    \/ \E veld \in {"latitude", "longitude", "elevation"},
          waarde \in {-200 * Scale, 200 * Scale} :
           SetAttribute(veld, waarde)

SpecLocation == InitLocation /\ [][NextLocation]_vars

\* C7: constructing a Location with latitude outside [-90, 90], longitude outside
\* [-180, 180] or elevation < 0 fails with a validation error and creates no instance;
\* every Location instance that exists, at any later time too, has
\* -90 <= latitude <= 90, -180 <= longitude <= 180 and elevation >= 0.
C7_LocationValidated ==
    /\ (/\ locArgs # None
        /\ \/ Less(locArgs.latitude, -D90) \/ Less(D90, locArgs.latitude)
           \/ Less(locArgs.longitude, -D180) \/ Less(D180, locArgs.longitude)
           \/ Less(locArgs.elevation, 0))
       => (fout = "ValueError" /\ location = None)
    /\ location # None =>
           /\ LessEq(-D90, location.latitude) /\ LessEq(location.latitude, D90)
           /\ LessEq(-D180, location.longitude) /\ LessEq(location.longitude, D180)
           /\ LessEq(0, location.elevation)

(***************************************************************************)
(* GebedsTijdenCalculator._formatteer_tijd.  A string is the sequence of   *)
(* its characters.                                                         *)
(***************************************************************************)
Cijfers == <<"0", "1", "2", "3", "4", "5", "6", "7", "8", "9">>

Cijfer(d) == Cijfers[d + 1]

RECURSIVE Decimaal(_)
\* str(n) for n >= 0
Decimaal(n) == IF n < 10 THEN <<Cijfer(n)>> ELSE Decimaal(n \div 10) \o <<Cijfer(n % 10)>>

\* f"{n:02d}": zero-padded to two characters, the sign counted in the width
Format02d(n) ==
    IF n < 0 THEN <<"-">> \o Decimaal(-n)
    ELSE IF n < 10 THEN <<"0", Cijfer(n)>>
    ELSE Decimaal(n)

\* int(x): truncation toward zero, of x in millionths
IntVan(x) == Sgn(x) * (Abs(x) \div Scale)

\* round(x) for x >= 0 in millionths: to the nearest integer, a tie to the even one
RoundPos(x) ==
    IF x % Scale > Scale \div 2 THEN (x \div Scale) + 1
    ELSE IF x % Scale < Scale \div 2 THEN x \div Scale
    ELSE (x \div Scale) + ((x \div Scale) % 2)

\* round(x), Python 3
Round(x) == Sgn(x) * RoundPos(Abs(x))

\* uren = int(tijd)
Uren(t) == IntVan(t)

\* minuten = int(round((tijd - uren) * 60))
Minuten(t) == Round((t - Uren(t) * Scale) * 60)

\* the carry without the modulo
RolUren_Mut(uren) == uren + 1

\* uren = (uren + 1) % 24
RolUren(uren) == (uren + 1) % 24

\* uren after "if minuten == 60"
UrenNaAfronden(t) == IF Minuten(t) = 60 THEN RolUren(Uren(t)) ELSE Uren(t)

\* minuten after "if minuten == 60"
MinutenNaAfronden(t) == IF Minuten(t) = 60 THEN 0 ELSE Minuten(t)

\* noon itself counted as morning
Periode_Mut(uren) == IF uren <= 12 THEN <<"A", "M">> ELSE <<"P", "M">>

\* periode = 'AM' if uren < 12 else 'PM'
Periode(uren) == IF uren < 12 THEN <<"A", "M">> ELSE <<"P", "M">>

\* weergave_uren = uren % 12 or 12
WeergaveUren(uren) == IF uren % 12 = 0 THEN 12 ELSE uren % 12

Ongeldig == <<"O", "n", "g", "e", "l", "d", "i", "g">>

\* _formatteer_tijd(tijd, formaat)
formatteer_tijd(t, fmt) ==
    IF IsNaN(t) THEN Ongeldig
    ELSE IF fmt = "12u"
         THEN Format02d(WeergaveUren(UrenNaAfronden(t))) \o <<":">>
              \o Format02d(MinutenNaAfronden(t)) \o <<" ">> \o Periode(UrenNaAfronden(t))
         ELSE Format02d(UrenNaAfronden(t)) \o <<":">> \o Format02d(MinutenNaAfronden(t))

(***************************************************************************)
(* SpecFormat: _formatteer_tijd is applied to a fractional hour in [0, 24) *)
(* or to NaN, in either format.                                            *)
(***************************************************************************)
TikkenPerUur == 200

\* the distance between two inputs: 0.005 hour, so that 0.025 hour (a minute and a
\* half, a tie) and 0.995 hour (59.7 minutes, which round to 60) are inputs
Tik == Scale \div TikkenPerUur

FormatTijden ==
    {u * Scale + k * Tik : u \in 0..23, k \in 0..(TikkenPerUur - 1)} \cup {NaN}

InitFormat ==
    /\ location = None
    /\ locArgs = None
    /\ fout = "none"
    /\ datum = NoDatum
    /\ tijden = NietBerekend
    /\ cosinus = NietBerekend
    /\ tijd \in FormatTijden
    /\ formaat \in {"24u", "12u"}
    /\ tekst = GeenTekst
    /\ cache = <<>>
    /\ verzoeken = 0
    /\ weer = None
    /\ calculator = None
    /\ resultaat = None

FormatteerTijd ==
    /\ tekst = GeenTekst
    /\ tekst' = formatteer_tijd(tijd, formaat)
    /\ UNCHANGED <<location, locArgs, fout, datum, tijden, cosinus, tijd, formaat,
                   cache, verzoeken, weer, calculator, resultaat>>

NextFormat == FormatteerTijd

SpecFormat == InitFormat /\ [][NextFormat]_vars

\* the value of a digit character
CijferWaarde(c) == CHOOSE d \in 0..9 : Cijfer(d) = c

IsCijfer(c) == \E d \in 0..9 : Cijfer(d) = c

\* the number two digit characters spell
TweeCijfers(str, i) == 10 * CijferWaarde(str[i]) + CijferWaarde(str[i + 1])

\* the string starts with two digits, a colon and two digits
IsKlokTekst(str) ==
    /\ Len(str) >= 5
    /\ IsCijfer(str[1]) /\ IsCijfer(str[2]) /\ str[3] = ":"
    /\ IsCijfer(str[4]) /\ IsCijfer(str[5])

\* h in minutes, rounded to the nearest minute (a tie to the even minute), modulo 24 h
MinuutVanDag(h) == RoundPos(h * 60) % (24 * 60)

\* _formatteer_tijd has returned for a fractional hour
Geformatteerd(fmt) == tekst # GeenTekst /\ ~IsNaN(tijd) /\ formaat = fmt

\* C8 as stated: in 12-hour mode the hour shown is hour % 12 with 0 shown as 12, and
\* the suffix is AM iff floor(h) < 12, also when the minutes round to 60 and the hour
\* shown rolls over.
C8_SuffixFromFloorHour ==
    Geformatteerd("12u") =>
        /\ IsKlokTekst(tekst)
        /\ Len(tekst) = 8
        /\ TweeCijfers(tekst, 1) \in 1..12
        /\ <<tekst[7], tekst[8]>> = (IF tijd \div Scale < 12 THEN <<"A", "M">> ELSE <<"P", "M">>)

\* C8 amended: in 12-hour mode the hour shown is hour % 12 with 0 shown as 12 and the
\* suffix is AM iff hour < 12, where hour is the 24-hour hour after the minute
\* rounding has been applied (floor(h), or (floor(h) + 1) % 24 when the minutes round
\* to 60): the string is the time rounded to the minute, on the 12-hour clock.
C8_SuffixFromRoundedHour ==
    Geformatteerd("12u") =>
        /\ IsKlokTekst(tekst)
        /\ Len(tekst) = 8
        /\ tekst[6] = " "
        /\ TweeCijfers(tekst, 1) =
               (IF (MinuutVanDag(tijd) \div 60) % 12 = 0 THEN 12
                ELSE (MinuutVanDag(tijd) \div 60) % 12)
        /\ TweeCijfers(tekst, 4) = MinuutVanDag(tijd) % 60
        /\ <<tekst[7], tekst[8]>> =
               (IF MinuutVanDag(tijd) < 12 * 60 THEN <<"A", "M">> ELSE <<"P", "M">>)

\* C8 witness: an hour with floor 11 whose minutes rounded to 60 was printed 12:00 PM
C8_Witness ==
    /\ Geformatteerd("12u")
    /\ tijd \div Scale = 11
    /\ Minuten(tijd) = 60
    /\ tekst = <<"1", "2", ":", "0", "0", " ", "P", "M">>

\* C9: for h in [0, 24), _formatteer_tijd(h, '24u') is zero-padded HH:MM with HH in
\* 00..23 and MM in 00..59, equal to h rounded to the nearest minute modulo 24 hours:
\* hour floor(h) and minute round((h - floor(h)) * 60), a minute of 60 printed as
\* minute 00 of the next hour and hour 23 wrapping to 00.
C9_Format24 ==
    Geformatteerd("24u") =>
        /\ IsKlokTekst(tekst)
        /\ Len(tekst) = 5
        /\ TweeCijfers(tekst, 1) \in 0..23
        /\ TweeCijfers(tekst, 4) \in 0..59
        /\ TweeCijfers(tekst, 1) * 60 + TweeCijfers(tekst, 4) = MinuutVanDag(tijd)
        /\ RoundPos((tijd % Scale) * 60) < 60 =>
               /\ TweeCijfers(tekst, 1) = tijd \div Scale
               /\ TweeCijfers(tekst, 4) = RoundPos((tijd % Scale) * 60)
        /\ RoundPos((tijd % Scale) * 60) = 60 =>
               /\ TweeCijfers(tekst, 1) = ((tijd \div Scale) + 1) % 24
               /\ TweeCijfers(tekst, 4) = 0

\* C9 witness: an hour with floor 23 whose minutes rounded to 60 was printed 00:00
C9_Witness ==
    /\ Geformatteerd("24u")
    /\ tijd \div Scale = 23
    /\ Minuten(tijd) = 60
    /\ tekst = <<"0", "0", ":", "0", "0">>

(***************************************************************************)
(* OpenWeatherMapProvider.haal_weer_data.  The outcome of the HTTP request *)
(* is "ok" or the class of the exception that sessie.get, raise_for_status *)
(* or response.json raises.  An undecodable body raises                    *)
(* requests.JSONDecodeError (a RequestException) or, with an older         *)
(* requests, a plain ValueError.                                           *)
(***************************************************************************)
CACHE_MAXSIZE == 128

TIMEOUT == 10

RequestExceptions == {"Timeout", "ConnectionError", "HTTPError", "JSONDecodeError"}

OverigeExceptions == {"ValueError", "RuntimeError"}

\* except requests.RequestException
IsRequestException(exc) == exc \in RequestExceptions

\* a handler that catches the request errors only
IsException_Mut(exc) == exc \in RequestExceptions

\* except Exception
IsException(exc) == exc \in RequestExceptions \cup OverigeExceptions

\* self.sessie.get(self.api_host, params=params, timeout=10)
Verzoek(loc) ==
    [lat |-> loc.latitude, lon |-> loc.longitude, units |-> "metric", lang |-> "nl",
     timeout |-> TIMEOUT]

\* the body of haal_weer_data: what the try statement returns or raises
weer_try(uitkomst, antwoord) ==
    IF uitkomst = "ok" THEN [raised |-> "none", waarde |-> antwoord]
    ELSE IF IsRequestException(uitkomst)
         THEN [raised |-> "none", waarde |-> [error |-> <<"Netwerkfout", uitkomst>>]]
    ELSE IF IsException(uitkomst)
         THEN [raised |-> "none", waarde |-> [error |-> <<"Onverwachte fout", uitkomst>>]]
    ELSE [raised |-> uitkomst, waarde |-> None]

(***************************************************************************)
(* functools.lru_cache(maxsize=128) around the method: one cache for the   *)
(* class, keyed by the arguments (self, location), least recently used     *)
(* entry first.  A call that raises stores nothing.                        *)
(***************************************************************************)
\* the provider instance left out of the key
CacheIndex_Mut(c, sleutel) == {i \in 1..Len(c) : c[i].sleutel[2] = sleutel[2]}

CacheIndex(c, sleutel) == {i \in 1..Len(c) : c[i].sleutel = sleutel}

CacheHit(c, sleutel) == CacheIndex(c, sleutel) # {}

CachePositie(c, sleutel) == CHOOSE i \in CacheIndex(c, sleutel) : TRUE

\* the entry moves to the most recently used end
CacheTouch(c, i) == SubSeq(c, 1, i - 1) \o SubSeq(c, i + 1, Len(c)) \o <<c[i]>>

\* a new entry, the least recently used one evicted when the cache is full
CachePut(c, sleutel, waarde) ==
    (IF Len(c) >= CACHE_MAXSIZE THEN Tail(c) ELSE c)
        \o <<[sleutel |-> sleutel, waarde |-> waarde]>>

\* the cached method: provider.haal_weer_data(loc) with cache c
haal_weer_data(c, provider, loc, uitkomst, antwoord) ==
    IF CacheHit(c, <<provider, loc>>)
    THEN [cache |-> CacheTouch(c, CachePositie(c, <<provider, loc>>)),
          verzoek |-> None, uitkomst |-> "cache",
          raised |-> "none", waarde |-> c[CachePositie(c, <<provider, loc>>)].waarde]
    ELSE [cache |-> IF weer_try(uitkomst, antwoord).raised = "none"
                    THEN CachePut(c, <<provider, loc>>, weer_try(uitkomst, antwoord).waarde)
                    ELSE c,
          verzoek |-> Verzoek(loc), uitkomst |-> uitkomst,
          raised |-> weer_try(uitkomst, antwoord).raised,
          waarde |-> weer_try(uitkomst, antwoord).waarde]

(***************************************************************************)
(* SpecWeer: calls of haal_weer_data on a few providers and locations,     *)
(* every outcome of the HTTP request.                                      *)
(***************************************************************************)
MaxProviders == 2

MaxVerzoeken == 2

Providers == 1..MaxProviders

WeerLocaties == {NewLocation(k * 5 * LatStap, 0, 0) : k \in 0..1}

Uitkomsten == {"ok"} \cup RequestExceptions \cup OverigeExceptions

\* response.json() of a successful request: a cold day and a mild one
Antwoorden ==
    {[main |-> [temp |-> temp], weather |-> <<[description |-> "helder"]>>] :
        temp \in {3, 20}}

\* what a request meets: a decoded answer, or an exception and no answer
Reacties ==
    {[uitkomst |-> "ok", antwoord |-> antwoord] : antwoord \in Antwoorden}
        \cup {[uitkomst |-> exc, antwoord |-> None] : exc \in Uitkomsten \ {"ok"}}

\* a call answered from the cache issues no request and meets no reaction
ReactiesBij(c, provider, loc) ==
    IF CacheHit(c, <<provider, loc>>)
    THEN {[uitkomst |-> "cache", antwoord |-> None]}
    ELSE Reacties

InitWeer ==
    /\ location = None
    /\ locArgs = None
    /\ fout = "none"
    /\ datum = NoDatum
    /\ tijden = NietBerekend
    /\ cosinus = NietBerekend
    /\ tijd = NaN
    /\ formaat = "24u"
    /\ tekst = GeenTekst
    /\ cache = <<>>
    /\ verzoeken = 0
    /\ weer = None
    /\ calculator = None
    /\ resultaat = None

HaalWeerData(provider, loc) ==
    /\ fout = "none"
    /\ CacheHit(cache, <<provider, loc>>) \/ verzoeken < MaxVerzoeken
    /\ \E reactie \in ReactiesBij(cache, provider, loc) :
        \E r \in {haal_weer_data(cache, provider, loc, reactie.uitkomst,
                                 reactie.antwoord)} :
          /\ cache' = r.cache
          /\ verzoeken' = verzoeken + (IF r.verzoek = None THEN 0 ELSE 1)
          /\ weer' = [provider |-> provider, location |-> loc, verzoek |-> r.verzoek,
                      uitkomst |-> r.uitkomst, antwoord |-> reactie.antwoord,
                      raised |-> r.raised, waarde |-> r.waarde]
          /\ fout' = r.raised
    /\ UNCHANGED <<location, locArgs, datum, tijden, cosinus, tijd, formaat, tekst,
                   calculator, resultaat>>

NextWeer == \E provider \in Providers, loc \in WeerLocaties : HaalWeerData(provider, loc)

SpecWeer == InitWeer /\ [][NextWeer]_vars

\* the last call issued an HTTP request
VerzoekGedaan == weer # None /\ weer.verzoek # None

\* C10: haal_weer_data never propagates a failure: whatever the outcome of the HTTP
\* request (timeout, connection error, non-2xx status, undecodable body, any other
\* exception) it returns a dictionary with the key 'error', on success it returns
\* the decoded response, and the request is issued with the timeout of 10 seconds.
C10_NeverPropagates ==
    /\ fout = "none"
    /\ weer # None => weer.raised = "none" /\ weer.waarde # None
    /\ VerzoekGedaan =>
          /\ weer.verzoek.timeout = TIMEOUT
          /\ weer.verzoek.timeout > 0
          /\ weer.uitkomst # "ok" => "error" \in DOMAIN weer.waarde
          /\ weer.uitkomst = "ok" => weer.waarde = weer.antwoord

\* C10 witness: a request that failed outside the requests hierarchy was answered
\* with an error dictionary
C10_Witness ==
    /\ VerzoekGedaan
    /\ weer.uitkomst = "RuntimeError"
    /\ weer.waarde = [error |-> <<"Onverwachte fout", "RuntimeError">>]

(***************************************************************************)
(* GebedsTijdenCalculator.  The results of the astral calls and of the     *)
(* Hijri conversion are inputs: "ok" or the exception the library raises;  *)
(* moonrise and moonset may also return None.                              *)
(***************************************************************************)
\* methode.lower() on the names that are passed
lower(naam) ==
    CASE naam = "Hanafi" -> "hanafi"
      [] naam = "STANDAARD" -> "standaard"
      [] OTHER -> naam

\* GebedsTijdenCalculator(location, methode): the instance, or the exception
NieuweGebedsTijdenCalculator(loc, naam, provider) ==
    IF lower(naam) \notin MethodeNamen
    THEN [raised |-> "ValueError", waarde |-> None]
    ELSE [raised |-> "none",
          waarde |-> [location |-> loc, methode |-> lower(naam), weer_provider |-> provider]]

\* the dictionary comprehension over tijden.items()
GeformatteerdeTijden(t, fmt) == [gebed \in DOMAIN t |-> formatteer_tijd(t[gebed], fmt)]

\* datum_utc.strftime("%Y-%m-%d")
GregoriaanseDatum(dat) ==
    Decimaal(dat.jaar) \o <<"-">> \o Format02d(dat.maand) \o <<"-">> \o Format02d(dat.dag)

\* _krijg_hijri_datum: the library's answer, or the fallback text when it raises
krijg_hijri_datum(dat, hijri) ==
    IF hijri = "ok" THEN <<"hijri", dat.jaar, dat.maand, dat.dag>>
    ELSE <<"Ongeldige Hijri datum">>

\* strftime("%H:%M") of a moonrise or moonset, 'N/B' for None
MaanTijd(maan) == IF maan = "None" THEN "N/B" ELSE "HH:MM"

\* the first astral call that raises, in the order sun, moon_phase, moonrise, moonset
AstralFout(zon, fase, opkomst, ondergang) ==
    IF zon # "ok" THEN zon
    ELSE IF fase # "ok" THEN fase
    ELSE IF opkomst \notin {"ok", "None"} THEN opkomst
    ELSE IF ondergang \notin {"ok", "None"} THEN ondergang
    ELSE "none"

\* the notification
Notificatie(weer_data, opkomst) ==
    IF /\ "error" \notin DOMAIN weer_data
       /\ weer_data.main.temp < 5
       /\ opkomst # "None"
    THEN "Temperatuur laag en de maan komt op."
    ELSE "Geen meldingen."

\* the dictionary that bereken_gebedstijden returns
ResultaatDict(t, fmt, weer_data, dat, fase, opkomst, ondergang, hijri) ==
    [dhuhr |-> formatteer_tijd(t.dhuhr, fmt),
     sunrise |-> formatteer_tijd(t.sunrise, fmt),
     sunset |-> formatteer_tijd(t.sunset, fmt),
     maghrib |-> formatteer_tijd(t.maghrib, fmt),
     asr |-> formatteer_tijd(t.asr, fmt),
     fajr |-> formatteer_tijd(t.fajr, fmt),
     isha |-> formatteer_tijd(t.isha, fmt),
     weer |-> weer_data,
     maan |-> [maan_fase |-> fase, maanopkomst |-> MaanTijd(opkomst),
               maanondergang |-> MaanTijd(ondergang)],
     gregoriaanse_datum |-> GregoriaanseDatum(dat),
     hijri_datum |-> krijg_hijri_datum(dat, hijri),
     notificatie |-> Notificatie(weer_data, opkomst)]

\* the statements after the prayer times are computed: weather, astral, result
NaBerekening(t, fmt, w, dat, zon, fase, opkomst, ondergang, hijri) ==
    IF w.raised # "none" THEN [raised |-> w.raised, waarde |-> None]
    ELSE IF AstralFout(zon, fase, opkomst, ondergang) # "none"
         THEN [raised |-> AstralFout(zon, fase, opkomst, ondergang), waarde |-> None]
    ELSE [raised |-> "none",
          waarde |-> ResultaatDict(t, fmt, w.waarde, dat, fase, opkomst, ondergang, hijri)]

(***************************************************************************)
(* Spec: a calculator is constructed and bereken_gebedstijden is called    *)
(* once, with every combination of collaborator outcomes.                  *)
(***************************************************************************)
CalcLocaties == {NewLocation(k * 7 * LatStap, 0, 0) : k \in -1..0}

MethodeInvoer == {"standaard", "Hanafi", "maliki"}

ZonUitkomsten == {"ok", "ValueError"}

FaseUitkomsten == {"ok", "TypeError"}

MaanUitkomsten == {"ok", "None", "ValueError"}

HijriUitkomsten == {"ok", "OverflowError"}

Init ==
    /\ location \in CalcLocaties
    /\ locArgs = None
    /\ fout = "none"
    /\ datum \in Datums
    /\ tijden = NietBerekend
    /\ cosinus = NietBerekend
    /\ tijd = NaN
    /\ formaat \in {"24u", "12u"}
    /\ tekst = GeenTekst
    /\ cache = <<>>
    /\ verzoeken = 0
    /\ weer = None
    /\ calculator = None
    /\ resultaat = None

NieuweCalculator(naam) ==
    /\ calculator = None
    /\ fout = "none"
    /\ \E r \in {NieuweGebedsTijdenCalculator(location, naam, 1)} :
          /\ calculator' = r.waarde
          /\ fout' = r.raised
    /\ UNCHANGED <<location, locArgs, datum, tijden, cosinus, tijd, formaat, tekst,
                   cache, verzoeken, weer, resultaat>>

BerekenGebedstijden ==
    /\ calculator # None
    /\ resultaat = None
    /\ \E b \in {calculate_prayer_times(calculator.location, datum,
                                        METHODEN[calculator.methode])} :
          IF b.fout # "none"
          THEN /\ resultaat' = [raised |-> b.fout, waarde |-> None]
               /\ fout' = b.fout
               /\ UNCHANGED <<cache, verzoeken, weer>>
          ELSE \E reactie \in ReactiesBij(cache, calculator.weer_provider,
                                            calculator.location),
                  zon \in ZonUitkomsten, fase \in FaseUitkomsten,
                  opkomst \in MaanUitkomsten, ondergang \in MaanUitkomsten,
                  hijri \in HijriUitkomsten :
                 \E w \in {haal_weer_data(cache, calculator.weer_provider,
                                          calculator.location, reactie.uitkomst,
                                          reactie.antwoord)} :
                   \E r \in {NaBerekening(b.tijden, formaat, w, datum, zon, fase,
                                          opkomst, ondergang, hijri)} :
                      /\ cache' = w.cache
                      /\ verzoeken' = verzoeken + (IF w.verzoek = None THEN 0 ELSE 1)
                      /\ weer' = [provider |-> calculator.weer_provider,
                                  location |-> calculator.location, verzoek |-> w.verzoek,
                                  uitkomst |-> w.uitkomst, antwoord |-> reactie.antwoord,
                                  raised |-> w.raised, waarde |-> w.waarde]
                      /\ resultaat' = [raised |-> r.raised, waarde |-> r.waarde,
                                       zon |-> zon, fase |-> fase, opkomst |-> opkomst,
                                       ondergang |-> ondergang, hijri |-> hijri]
                      /\ fout' = r.raised
    /\ UNCHANGED <<location, locArgs, datum, tijden, cosinus, tijd, formaat, tekst,
                   calculator>>

Next ==
    \/ \E naam \in MethodeInvoer : NieuweCalculator(naam)
    \/ BerekenGebedstijden

Spec == Init /\ [][Next]_vars

\* C3: bereken_gebedstijden returns the formatted prayer times whatever collaborator
\* fails: for every combination of success and failure of the weather provider, the
\* astral calls sun, moon_phase, moonrise and moonset, and the Hijri converter, the
\* call returns normally with the six prayer times present; it never raises because
\* of a collaborator failure.
C3_ReturnsDespiteCollaboratorFailure ==
    resultaat # None =>
        /\ resultaat.raised = "none"
        /\ {"fajr", "sunrise", "dhuhr", "asr", "maghrib", "isha"} \subseteq DOMAIN resultaat.waarde

(***************************************************************************)
(* SpecCache: sequences of haal_weer_data calls on every provider for one  *)
(* Location value, starting with the cache empty or with the cache full    *)
(* and the entry of provider 1 its least recently used one.  verzoeken     *)
(* counts the requests issued since the initial state.                     *)
(***************************************************************************)
CacheLocatie == NewLocation(0, 0, 0)

\* the key of an earlier call on another provider instance, for another place
VulSleutel(i) == <<0, NewLocation(0, i * Scale, 0)>>

\* the entries that n earlier calls left, each for its own Location
Vulling(n) ==
    [i \in 1..n |-> [sleutel |-> VulSleutel(i),
                     waarde |-> [error |-> <<"Netwerkfout", "Timeout">>]]]

\* a full cache whose least recently used entry is an error cached for provider 1
VolleCache ==
    <<[sleutel |-> <<1, CacheLocatie>>,
       waarde |-> [error |-> <<"Netwerkfout", "ConnectionError">>]]>>
        \o Vulling(CACHE_MAXSIZE - 1)

InitCache ==
    /\ location = None
    /\ locArgs = None
    /\ fout = "none"
    /\ datum = NoDatum
    /\ tijden = NietBerekend
    /\ cosinus = NietBerekend
    /\ tijd = NaN
    /\ formaat = "24u"
    /\ tekst = GeenTekst
    /\ cache \in {<<>>, VolleCache}
    /\ verzoeken = 0
    /\ weer = None
    /\ calculator = None
    /\ resultaat = None

NextCache == \E provider \in Providers : HaalWeerData(provider, CacheLocatie)

SpecCache == InitCache /\ [][NextCache]_vars

\* the cache c holds an entry for the key
InCache(c, sleutel) == \E i \in 1..Len(c) : c[i].sleutel = sleutel

\* the result the cache c holds for the key
WaardeIn(c, sleutel) == c[CHOOSE i \in 1..Len(c) : c[i].sleutel = sleutel].waarde

\* the entries of the cache c: pairs of a key and the result stored for it
Entries(c) == {c[i] : i \in 1..Len(c)}

\* what one call does, the key being what the call was made with: a stored result is
\* returned without a request, a new result is stored, each key has one entry, and
\* an entry leaves, unchanged until then, only as the oldest of a full cache
GememoiseerdeAanroep(sleutel) ==
    /\ InCache(cache, sleutel) =>
          /\ weer'.verzoek = None
          /\ verzoeken' = verzoeken
          /\ weer'.waarde = WaardeIn(cache, sleutel)
    /\ ~InCache(cache, sleutel) =>
          /\ weer'.verzoek # None
          /\ verzoeken' = verzoeken + 1
    /\ InCache(cache', sleutel)
    /\ WaardeIn(cache', sleutel) = weer'.waarde
    /\ cache'[Len(cache')].sleutel = sleutel
    /\ Len(cache') <= CACHE_MAXSIZE
    /\ Cardinality({e.sleutel : e \in Entries(cache')}) = Len(cache')
    /\ Entries(cache) \ Entries(cache') \subseteq
          (IF Len(cache) = CACHE_MAXSIZE /\ ~InCache(cache, sleutel)
           THEN {cache[1]} ELSE {})

\* C11: across any sequence of haal_weer_data calls, the result of a call for a
\* (provider, Location) pair is stored with its outcome, errors included; while the
\* entry is in the cache (it leaves only as the least recently used of 128 entries,
\* when a call for a new pair comes), every later call with that pair returns the
\* stored result and issues no request, and no stored result is ever replaced; a call
\* on another provider instance with an equal Location does not use the entry: it
\* issues its own request.
C11_Memoized ==
    [][GememoiseerdeAanroep(<<weer'.provider, weer'.location>>)]_vars

\* C11 witness: a call on one provider was answered with its cached error, without a
\* request, after a request of another provider for the equal Location had succeeded
C11_Witness ==
    /\ weer # None
    /\ weer.verzoek = None
    /\ "error" \in DOMAIN weer.waarde
    /\ \E i \in 1..Len(cache) :
          /\ cache[i].sleutel[1] # weer.provider
          /\ cache[i].sleutel[2] = weer.location
          /\ "error" \notin DOMAIN cache[i].waarde

=============================================================================
